---- MODULE Spec2Model ----
(***************************************************************************)
(* Model of the pausable event-loop visualisation of                       *)
(* src/src/routes/+page.svelte: the four containers, the output log, the   *)
(* status, the id counter, the registry of scheduled events and the host's *)
(* timer facility (setTimeout / clearTimeout / Date.now).                  *)
(*                                                                         *)
(* Every handler of the component runs to completion at one instant of the *)
(* host clock (JavaScript is single-threaded and a handler takes far less  *)
(* than a millisecond).  The host fires a timer at its due time, timers    *)
(* that are due together in the order they were armed; user calls may      *)
(* interleave with due timers at the same instant.                         *)
(***************************************************************************)
EXTENDS Integers, Sequences, FiniteSets, TLC

VARIABLES
    callStack,        \* line 6
    webAPI,           \* line 7
    callbackQueue,    \* line 8
    microTaskQueue,   \* line 9
    output,           \* line 10
    status,           \* line 11
    uniqueId,         \* line 12
    scheduledEvents,  \* line 15
    now,              \* host clock, Date.now(), in milliseconds
    timers,           \* host timers that are armed (setTimeout, not yet fired nor cleared)
    lastOp,           \* history: the last call or timer firing
    prevStatus,       \* history: the status that call or firing found
    lastFire,         \* history: what is known about the last timer that fired
    fired,            \* history: the events still referenced whose callback has run
    registered,       \* history: for each registry entry, when and how it was registered
    pausedTotal,      \* history: time spent in completed pauses since the last run/reset
    pauseStart,       \* history: the instant of the last effective pause
    calls,            \* history: number of calls that started a run or a pause
    probes            \* history: number of scheduleEvent calls made by the scheduler harness

vars == <<callStack, webAPI, callbackQueue, microTaskQueue, output, status,
          uniqueId, scheduledEvents, now, timers,
          lastOp, prevStatus, lastFire, fired, registered, pausedTotal, pauseStart, calls, probes>>

----------------------------------------------------------------------------
(* Bounds of the model *)

MaxCalls == 3         \* calls that start a run or a pause, explored in one behaviour
Quantum == 300        \* step by which the clock advances short of a due time; longest pause
ClockStart == 1       \* Date.now() at construction (never 0 on a real host)
MaxProbes == 2        \* scheduleEvent calls made by the scheduler harness

ProbeDelays == {0, 200, 500}   \* delays the scheduler harness schedules with

----------------------------------------------------------------------------
(* Generic helpers *)

Range(f) == {f[i] : i \in DOMAIN f}

Max(a, b) == IF a >= b THEN a ELSE b

SetMax(S) == IF S = {} THEN 0 ELSE CHOOSE x \in S : \A y \in S : y <= x

NULL == 0    \* the null timer handle and null/absent values

----------------------------------------------------------------------------
(* The program state as one value, so that the functions of the component  *)
(* compose as they do in the source.                                       *)

State ==
    [callStack |-> callStack, webAPI |-> webAPI, callbackQueue |-> callbackQueue,
     microTaskQueue |-> microTaskQueue, output |-> output, status |-> status,
     uniqueId |-> uniqueId, scheduledEvents |-> scheduledEvents,
     now |-> now, timers |-> timers]

Install(s) ==
    /\ callStack' = s.callStack
    /\ webAPI' = s.webAPI
    /\ callbackQueue' = s.callbackQueue
    /\ microTaskQueue' = s.microTaskQueue
    /\ output' = s.output
    /\ status' = s.status
    /\ uniqueId' = s.uniqueId
    /\ scheduledEvents' = s.scheduledEvents
    /\ now' = s.now
    /\ timers' = s.timers

QueueItem(id, text, type, duration) ==
    [id |-> id, text |-> text, type |-> type, duration |-> duration]

\* the value of microTaskQueue[0] / callbackQueue[0] on an empty array
UndefinedItem == [id |-> -1, text |-> "undefined", type |-> "undefined", duration |-> -1]

Head0(q) == IF Len(q) > 0 THEN q[1] ELSE UndefinedItem

\* slice(0, -1) in place of slice(1)
Slice1_dropsLast(q) == IF Len(q) > 0 THEN SubSeq(q, 1, Len(q) - 1) ELSE <<>>

Slice1(q) == IF Len(q) > 0 THEN Tail(q) ELSE <<>>

----------------------------------------------------------------------------
(* Host timer facility *)

\* Handles are positive and increase with every setTimeout among the handles
\* still in use; only their identity and their order matter.
FreshHandle(s) ==
    1 + SetMax({t.handle : t \in s.timers} \cup {e.timer : e \in Range(s.scheduledEvents)})

\* Identity of a new ScheduledEvent object, fresh among the objects still referenced.
FreshRef(s) ==
    1 + SetMax({t.ref : t \in s.timers} \cup {e.ref : e \in Range(s.scheduledEvents)})

setTimeout(s, ref, cb, delay) ==
    [s EXCEPT !.timers = @ \cup {[handle |-> FreshHandle(s), due |-> s.now + delay,
                                  ref |-> ref, callback |-> cb]}]

clearTimeouts(s, handles) ==
    [s EXCEPT !.timers = {t \in @ : t.handle \notin handles}]

----------------------------------------------------------------------------
(* Functions of the component *)

getNextId(s) == [s EXCEPT !.uniqueId = @ + 1]

\* reset that forgets scheduledEvents = []
reset_keepsEvents(s) ==
    LET cleared == {e.timer : e \in Range(s.scheduledEvents)} \ {NULL}
        s1 == clearTimeouts(s, cleared)
    IN  [s1 EXCEPT !.status = "idle", !.callStack = <<>>, !.webAPI = <<>>,
                   !.callbackQueue = <<>>, !.microTaskQueue = <<>>, !.output = <<>>]

\* reset that forgets to clear the timers of the registry
reset_keepsTimers(s) ==
    [s EXCEPT !.status = "idle", !.callStack = <<>>, !.webAPI = <<>>,
              !.callbackQueue = <<>>, !.microTaskQueue = <<>>, !.output = <<>>,
              !.scheduledEvents = <<>>]

\* reset that also restarts the id counter
reset_zeroesId(s) ==
    LET cleared == {e.timer : e \in Range(s.scheduledEvents)} \ {NULL}
        s1 == clearTimeouts(s, cleared)
    IN  [s1 EXCEPT !.status = "idle", !.callStack = <<>>, !.webAPI = <<>>,
                   !.callbackQueue = <<>>, !.microTaskQueue = <<>>, !.output = <<>>,
                   !.scheduledEvents = <<>>, !.uniqueId = 0]

reset(s) ==
    LET cleared == {e.timer : e \in Range(s.scheduledEvents)} \ {NULL}
        s1 == clearTimeouts(s, cleared)
    IN  [s1 EXCEPT !.status = "idle", !.callStack = <<>>, !.webAPI = <<>>,
                   !.callbackQueue = <<>>, !.microTaskQueue = <<>>, !.output = <<>>,
                   !.scheduledEvents = <<>>]

\* callStack = [...callStack, { ...item, id: getNextId() }]
addToCallStack(s, item) ==
    [getNextId(s) EXCEPT !.callStack = Append(@, [item EXCEPT !.id = s.uniqueId])]

\* addToCallStack({ id: getNextId(), text, type, duration }): the literal is
\* evaluated first and takes an id of its own, which addToCallStack overwrites.
addNewToCallStack(s, text, type, duration) ==
    addToCallStack(getNextId(s), QueueItem(s.uniqueId, text, type, duration))

removeFromCallStack(s, text) ==
    [s EXCEPT !.callStack = SelectSeq(@, LAMBDA item : item.text # text)]

\* scheduleEvent that hands setTimeout no delay
scheduleEvent_ignoresDelay(s, cb, delay) ==
    LET event == [ref |-> FreshRef(s), callback |-> cb, remainingDelay |-> delay,
                  timer |-> FreshHandle(s), startTime |-> s.now]
        s1 == setTimeout(s, event.ref, cb, 0)
    IN  [s1 EXCEPT !.scheduledEvents = Append(@, event)]

scheduleEvent(s, cb, delay) ==
    LET event == [ref |-> FreshRef(s), callback |-> cb, remainingDelay |-> delay,
                  timer |-> FreshHandle(s), startTime |-> s.now]
        s1 == setTimeout(s, event.ref, cb, delay)
    IN  [s1 EXCEPT !.scheduledEvents = Append(@, event)]

\* pause that stops the timer but does not take the elapsed time off
pauseEvent_keepsDelay(s, e) ==
    IF e.timer # NULL THEN [e EXCEPT !.timer = NULL] ELSE e

pauseEvent(s, e) ==
    IF e.timer # NULL
    THEN [e EXCEPT !.timer = NULL,
                   !.remainingDelay = IF e.startTime # 0
                                      THEN Max(0, @ - (s.now - e.startTime))
                                      ELSE @]
    ELSE e

\* pause that only flips the status and logs, leaving every timer armed
pauseExecution_leavesTimers(s) ==
    IF s.status # "running" THEN s
    ELSE [s EXCEPT !.status = "paused", !.output = Append(@, "Execution paused")]

\* pause that forgets clearTimeout but nulls the handles
pauseExecution_dropsHandles(s) ==
    IF s.status # "running" THEN s
    ELSE [s EXCEPT !.status = "paused",
                   !.scheduledEvents = [i \in DOMAIN @ |-> pauseEvent(s, @[i])],
                   !.output = Append(@, "Execution paused")]

\* pause without the guard of line 72
pauseExecution_unguarded(s) ==
    LET s1 == clearTimeouts(s, {e.timer : e \in Range(s.scheduledEvents)} \ {NULL})
    IN  [s1 EXCEPT !.status = "paused",
                   !.scheduledEvents = [i \in DOMAIN @ |-> pauseEvent(s, @[i])],
                   !.output = Append(@, "Execution paused")]

pauseExecution(s) ==
    IF s.status # "running" THEN s
    ELSE LET s1 == clearTimeouts(s, {e.timer : e \in Range(s.scheduledEvents)} \ {NULL})
         IN  [s1 EXCEPT !.status = "paused",
                        !.scheduledEvents = [i \in DOMAIN @ |-> pauseEvent(s, @[i])],
                        !.output = Append(@, "Execution paused")]

\* one iteration of the forEach of resumeExecution
resumeEvent(s, i) ==
    LET e == s.scheduledEvents[i] IN
    IF e.timer = NULL
    THEN LET s1 == setTimeout(s, e.ref, e.callback, e.remainingDelay)
         IN  [s1 EXCEPT !.scheduledEvents[i] =
                            [e EXCEPT !.timer = FreshHandle(s), !.startTime = s.now]]
    ELSE s

RECURSIVE resumeFrom(_, _)
resumeFrom(s, i) ==
    IF i > Len(s.scheduledEvents) THEN s ELSE resumeFrom(resumeEvent(s, i), i + 1)

RECURSIVE resumeDownFrom(_, _)
resumeDownFrom(s, i) ==
    IF i < 1 THEN s ELSE resumeDownFrom(resumeEvent(s, i), i - 1)

\* resume that re-arms the entries last to first
resumeExecution_reversed(s) ==
    IF s.status # "paused" THEN s
    ELSE LET s1 == resumeDownFrom([s EXCEPT !.status = "running"], Len(s.scheduledEvents))
         IN  [s1 EXCEPT !.output = Append(@, "Execution resumed")]

\* resume that flips the status and logs without re-arming any timer
resumeExecution_forgetsRearm(s) ==
    IF s.status # "paused" THEN s
    ELSE [s EXCEPT !.status = "running", !.output = Append(@, "Execution resumed")]

resumeExecution(s) ==
    IF s.status # "paused" THEN s
    ELSE LET s1 == resumeFrom([s EXCEPT !.status = "running"], 1)
         IN  [s1 EXCEPT !.output = Append(@, "Execution resumed")]

\* the body shared by the callbacks of lines 171-176: take microTaskQueue[0],
\* empty the queue, push what was taken
drainStep(s, line) ==
    LET microtask == Head0(s.microTaskQueue)
        s1 == addToCallStack([s EXCEPT !.microTaskQueue = <<>>], microtask)
    IN  [s1 EXCEPT !.output = Append(@, line)]

\* a dequeue that pushes callbackQueue[0] and leaves the queue as it is
dequeueStep_peeks(s, line) ==
    LET taken == Head0(s.callbackQueue)
        s1 == addToCallStack(s, taken)
    IN  [s1 EXCEPT !.output = Append(@, line)]

\* the body shared by the callbacks of lines 179-184 and 187-192: take
\* callbackQueue[0], keep callbackQueue.slice(1), push what was taken
dequeueStep(s, line) ==
    LET taken == Head0(s.callbackQueue)
        s1 == addToCallStack([s EXCEPT !.callbackQueue = Slice1(@)], taken)
    IN  [s1 EXCEPT !.output = Append(@, line)]

\* The callbacks of the simulation program, named by the number of the log
\* line they write; 0 is the empty callback of the scheduler harness.
callback(k, s) ==
    CASE k = 2 ->
           LET s1 == addNewToCallStack(s, "loadImage()", "imageLoad", 3000)
           IN  [s1 EXCEPT !.output = Append(@, "2. Starting image load (3000ms)")]
      [] k = 3 ->
           LET s1 == removeFromCallStack(s, "loadImage()")
               s2 == getNextId(s1)
           IN  [s2 EXCEPT !.webAPI = Append(@, QueueItem(s1.uniqueId, "Loading large image", "imageLoad", 3000)),
                          !.output = Append(@, "3. Image load moved to Web API")]
      [] k = 4 ->
           LET s1 == addNewToCallStack(s, "dbQuery()", "database", 2500)
           IN  [s1 EXCEPT !.output = Append(@, "4. Starting database query (2500ms)")]
      [] k = 5 ->
           LET s1 == removeFromCallStack(s, "dbQuery()")
               s2 == getNextId(s1)
           IN  [s2 EXCEPT !.webAPI = Append(@, QueueItem(s1.uniqueId, "Database query running", "database", 2500)),
                          !.output = Append(@, "5. Database query moved to Web API")]
      [] k = 6 ->
           LET s1 == addNewToCallStack(s, "Promise.resolve()", "promise", 0)
               s2 == [s1 EXCEPT !.output = Append(@, "6. Creating Promise")]
           IN  scheduleEvent(s2, 7, 200)
      [] k = 7 ->
           LET s1 == getNextId(s)
           IN  [s1 EXCEPT !.microTaskQueue = Append(@, QueueItem(s.uniqueId, "Promise callback", "promise", 0)),
                          !.output = Append(@, "7. Promise moved to microtask queue")]
      [] k = 8 ->
           LET s1 == [s EXCEPT !.webAPI = SelectSeq(@, LAMBDA item : item.type # "database")]
               s2 == getNextId(s1)
           IN  [s2 EXCEPT !.callbackQueue = Append(@, QueueItem(s1.uniqueId, "Database callback", "database", 0)),
                          !.output = Append(@, "8. Database query complete, callback queued")]
      [] k = 9 ->
           LET s1 == [s EXCEPT !.webAPI = SelectSeq(@, LAMBDA item : item.type # "imageLoad")]
               s2 == getNextId(s1)
           IN  [s2 EXCEPT !.callbackQueue = Append(@, QueueItem(s1.uniqueId, "Image load callback", "imageLoad", 0)),
                          !.output = Append(@, "9. Image load complete, callback queued")]
      [] k = 10 -> drainStep(s, "10. Processing Promise callback")
      [] k = 11 -> dequeueStep(s, "11. Processing database callback")
      [] k = 12 -> dequeueStep(s, "12. Processing image callback")
      [] k = 13 ->
           [s EXCEPT !.callStack = <<>>, !.status = "complete",
                     !.output = Append(@, "13. Execution complete")]
      [] OTHER -> s

\* the program with the delay of step 10 mistyped as 6200
Program_lateDrain ==
    << <<2, 500>>, <<3, 1000>>, <<4, 1500>>, <<5, 2000>>, <<6, 2500>>, <<8, 4500>>,
       <<9, 5000>>, <<10, 6200>>, <<11, 6000>>, <<12, 6500>>, <<13, 7000>> >>

\* the program with step 7 scheduled by simulateEventLoop as well
Program_withStep7 ==
    << <<2, 500>>, <<3, 1000>>, <<4, 1500>>, <<5, 2000>>, <<6, 2500>>, <<7, 2700>>,
       <<8, 4500>>, <<9, 5000>>, <<10, 5500>>, <<11, 6000>>, <<12, 6500>>, <<13, 7000>> >>

\* the (callback, delay) pairs simulateEventLoop schedules, in source order
Program ==
    << <<2, 500>>, <<3, 1000>>, <<4, 1500>>, <<5, 2000>>, <<6, 2500>>, <<8, 4500>>,
       <<9, 5000>>, <<10, 5500>>, <<11, 6000>>, <<12, 6500>>, <<13, 7000>> >>

RECURSIVE scheduleAll(_, _, _)
scheduleAll(s, list, i) ==
    IF i > Len(list) THEN s
    ELSE scheduleAll(scheduleEvent(s, list[i][1], list[i][2]), list, i + 1)

simulateEventLoop(s) ==
    LET s1 == [reset(s) EXCEPT !.status = "running"]
        s2 == addNewToCallStack(s1, "main()", "DOM", 0)
        s3 == [s2 EXCEPT !.output = Append(@, "1. Starting main execution")]
    IN  scheduleAll(s3, Program, 1)

\* the body of the closure handed to setTimeout (lines 64-67 and 99-102)
timerFire(s, t) ==
    LET s1 == [s EXCEPT !.timers = @ \ {t}]
        s2 == callback(t.callback, s1)
    IN  [s2 EXCEPT !.scheduledEvents = SelectSeq(@, LAMBDA e : e.ref # t.ref)]

\* the timers the host may fire now, and the one it fires first
DueTimers == {t \in timers : t.due <= now}

NextTimer ==
    CHOOSE t \in DueTimers :
        \A u \in DueTimers : t.due < u.due \/ (t.due = u.due /\ t.handle <= u.handle)

----------------------------------------------------------------------------
(* History bookkeeping *)

NoFire == [ref |-> 0, callback |-> -1, elapsed |-> 0, delay |-> 0, paused |-> 0,
           known |-> FALSE, again |-> FALSE]

PausedSoFar == pausedTotal + (IF status = "paused" THEN now - pauseStart ELSE 0)

EventRefs(s) == {e.ref : e \in Range(s.scheduledEvents)}

LiveRefs(s) == EventRefs(s) \cup {t.ref : t \in s.timers}

EventOf(s, r) == CHOOSE e \in Range(s.scheduledEvents) : e.ref = r

\* entries of s that old does not know are registered now
Registered(old, s) ==
    [r \in EventRefs(s) |->
        IF r \in DOMAIN old THEN old[r]
        ELSE [at |-> s.now, delay |-> EventOf(s, r).remainingDelay, paused |-> PausedSoFar]]

Empty == [r \in {} |-> 0]

\* Date.now() only ever enters differences of two readings.  Once no timer is
\* armed and no event is registered, no reading is held anywhere and the clock
\* is represented from ClockStart again.
Quiet(s) == s.timers = {} /\ s.scheduledEvents = <<>>

Rebased(s) == IF Quiet(s) THEN [s EXCEPT !.now = ClockStart] ELSE s

----------------------------------------------------------------------------
(* Actions *)

Init ==
    /\ callStack = <<>>
    /\ webAPI = <<>>
    /\ callbackQueue = <<>>
    /\ microTaskQueue = <<>>
    /\ output = <<>>
    /\ status = "idle"
    /\ uniqueId = 0
    /\ scheduledEvents = <<>>
    /\ now = ClockStart
    /\ timers = {}
    /\ lastOp = "init"
    /\ prevStatus = "idle"
    /\ lastFire = NoFire
    /\ fired = {}
    /\ registered = Empty
    /\ pausedTotal = 0
    /\ pauseStart = 0
    /\ calls = 0
    /\ probes = 0

\* the Run button (disabled while running or paused, line 209): simulateEventLoop()
Run ==
    /\ status \in {"idle", "complete"}
    /\ calls < MaxCalls
    /\ LET s == simulateEventLoop(IF Quiet(reset(State)) THEN Rebased(reset(State)) ELSE State)
       IN  /\ Install(s)
           /\ registered' = [r \in EventRefs(s) |->
                               [at |-> s.now, delay |-> EventOf(s, r).remainingDelay, paused |-> 0]]
    /\ lastOp' = "run"
    /\ prevStatus' = status
    /\ calls' = calls + 1
    /\ lastFire' = NoFire
    /\ fired' = {}
    /\ pausedTotal' = 0
    /\ pauseStart' = 0
    /\ UNCHANGED probes

\* the Reset button: reset()
Reset ==
    /\ Install(Rebased(reset(State)))
    /\ lastOp' = "reset"
    /\ prevStatus' = status
    /\ lastFire' = NoFire
    /\ fired' = {}
    /\ registered' = Empty
    /\ pausedTotal' = 0
    /\ pauseStart' = 0
    /\ UNCHANGED <<calls, probes>>

\* a call of pauseExecution()
Pause ==
    /\ status = "running" => calls < MaxCalls
    /\ LET s == pauseExecution(State)
       IN  /\ Install(s)
           /\ registered' = Registered(registered, s)
    /\ lastOp' = "pause"
    /\ prevStatus' = status
    /\ IF status = "running"
       THEN calls' = calls + 1 /\ pauseStart' = now
       ELSE UNCHANGED <<calls, pauseStart>>
    /\ UNCHANGED <<lastFire, fired, pausedTotal, probes>>

\* a call of resumeExecution()
Resume ==
    /\ LET s == resumeExecution(State)
       IN  /\ Install(s)
           /\ registered' = Registered(registered, s)
    /\ lastOp' = "resume"
    /\ prevStatus' = status
    /\ pausedTotal' = PausedSoFar
    /\ UNCHANGED <<lastFire, fired, pauseStart, calls, probes>>

\* the host fires the next due timer
Fire ==
    /\ DueTimers # {}
    /\ LET t == NextTimer
           s == timerFire(State, t)
           known == t.ref \in DOMAIN registered
       IN  /\ Install(s)
           /\ lastFire' = [ref |-> t.ref, callback |-> t.callback,
                           elapsed |-> IF known THEN now - registered[t.ref].at ELSE -1,
                           delay |-> IF known THEN registered[t.ref].delay ELSE -1,
                           paused |-> IF known THEN PausedSoFar - registered[t.ref].paused ELSE -1,
                           known |-> known,
                           again |-> t.ref \in fired]
           /\ fired' = (fired \cup {t.ref}) \cap LiveRefs(s)
           /\ registered' = Registered([r \in DOMAIN registered \ {t.ref} |-> registered[r]], s)
    /\ lastOp' = "fire"
    /\ prevStatus' = status
    /\ UNCHANGED <<pausedTotal, pauseStart, calls, probes>>

\* the host clock advances, never past the due time of an armed timer; it is
\* followed only while something waits for it (an armed timer or a pause), and
\* it is stopped between two due times only while a run or a pause may follow
CanAdvance(d) ==
    /\ d > 0
    /\ \A t \in timers : now + d <= t.due
    /\ timers = {} => status = "paused"
    /\ status = "paused" => now + d - pauseStart <= Quantum
    /\ (status # "paused" /\ calls >= MaxCalls) => \E t \in timers : now + d = t.due

Tick ==
    /\ \E d \in {Quantum} \cup {t.due - now : t \in timers} :
          /\ CanAdvance(d)
          /\ now' = now + d
    /\ UNCHANGED <<lastOp, prevStatus, callStack, webAPI, callbackQueue, microTaskQueue, output, status,
                   uniqueId, scheduledEvents, timers,
                   lastFire, fired, registered, pausedTotal, pauseStart, calls, probes>>

Next == Run \/ Reset \/ Pause \/ Resume \/ Fire \/ Tick

Spec == Init /\ [][Next]_vars

\* The component when the Reset button is left alone, on a host that keeps
\* going: the clock advances while something waits for it and a due timer is
\* fired (the host's event loop).  Nothing is assumed about when, or whether,
\* the user runs, pauses or resumes.
NextLive == Run \/ Pause \/ Resume \/ Fire \/ Tick

SpecLive == Init /\ [][NextLive]_vars /\ WF_vars(Tick) /\ WF_vars(Fire)

----------------------------------------------------------------------------
(* The event scheduler on its own: scheduleEvent called with any of a few   *)
(* delays at any instant of a run whose program is empty (the state of     *)
(* simulateEventLoop after line 112), with pauses and resumes in between.  *)

InitSched ==
    /\ callStack = <<>>
    /\ webAPI = <<>>
    /\ callbackQueue = <<>>
    /\ microTaskQueue = <<>>
    /\ output = <<>>
    /\ status = "running"
    /\ uniqueId = 0
    /\ scheduledEvents = <<>>
    /\ now = ClockStart
    /\ timers = {}
    /\ lastOp = "init"
    /\ prevStatus = "idle"
    /\ lastFire = NoFire
    /\ fired = {}
    /\ registered = Empty
    /\ pausedTotal = 0
    /\ pauseStart = 0
    /\ calls = 0
    /\ probes = 0

\* a call of scheduleEvent(() => {}, d) while running, as callbacks make it
Schedule ==
    /\ status = "running"
    /\ probes < MaxProbes
    /\ \E d \in ProbeDelays :
          LET s == scheduleEvent(State, 0, d)
          IN  /\ Install(s)
              /\ registered' = Registered(registered, s)
    /\ lastOp' = "schedule"
    /\ prevStatus' = status
    /\ probes' = probes + 1
    /\ UNCHANGED <<lastFire, fired, pausedTotal, pauseStart, calls>>

NextSched == Schedule \/ Pause \/ Resume \/ Fire \/ Tick

SpecSched == InitSched /\ [][NextSched]_vars

----------------------------------------------------------------------------
(* The callbacks on their own: each callback of the program applied once   *)
(* to containers of any content.                                           *)

MaxItems == 2    \* longest container the callbacks are applied to

StackTexts == {"loadImage()", "dbQuery()"}
QueueTexts == {"Promise callback", "Database callback"}

SeqsUpTo(S, n) == UNION {[1..m -> S] : m \in 0..n}

TypeOfText(text) ==
    CASE text = "loadImage()" -> "imageLoad"
      [] text = "dbQuery()" -> "database"
      [] text = "Promise callback" -> "promise"
      [] OTHER -> "database"

\* items with the given texts and the ids base, base + 1, ...
ItemsOf(texts, base) ==
    [i \in DOMAIN texts |-> QueueItem(base + i - 1, texts[i], TypeOfText(texts[i]), 0)]

InitOps ==
    /\ \E st \in SeqsUpTo(StackTexts, MaxItems), mq \in SeqsUpTo(QueueTexts, MaxItems),
          cq \in SeqsUpTo(QueueTexts, MaxItems) :
          /\ callStack = ItemsOf(st, 0)
          /\ microTaskQueue = ItemsOf(mq, Len(st))
          /\ callbackQueue = ItemsOf(cq, Len(st) + Len(mq))
          /\ uniqueId = Len(st) + Len(mq) + Len(cq)
    /\ webAPI = <<>>
    /\ output = <<>>
    /\ status = "running"
    /\ scheduledEvents = <<>>
    /\ now = ClockStart
    /\ timers = {}
    /\ lastOp = "init"
    /\ prevStatus = "idle"
    /\ lastFire = NoFire
    /\ fired = {}
    /\ registered = Empty
    /\ pausedTotal = 0
    /\ pauseStart = 0
    /\ calls = 0
    /\ probes = 0

\* one callback of the program runs, as timerFire runs it
Callback ==
    /\ probes = 0
    /\ \E k \in 2..13 :
          /\ Install(callback(k, State))
          /\ lastFire' = [NoFire EXCEPT !.callback = k]
    /\ lastOp' = "callback"
    /\ prevStatus' = status
    /\ probes' = 1
    /\ UNCHANGED <<fired, registered, pausedTotal, pauseStart, calls>>

NextOps == Callback

SpecOps == InitOps /\ [][NextOps]_vars

----------------------------------------------------------------------------
(* Properties *)

Containers == <<callStack, webAPI, microTaskQueue, callbackQueue>>

\* the step is a timer firing (a firing always takes its timer off the host)
FireStep == lastOp' = "fire" /\ timers' # timers

\* what is left of the delay of the registry entry r, counted from its
\* registration on the time the controller was not paused
Remaining(r) ==
    registered[r].delay
        - ((now - registered[r].at) - (PausedSoFar - registered[r].paused))

\* C1: an action fires exactly its original delay plus the time spent paused
\* since its registration after it was registered, never earlier and never later.
PauseKeepsTime ==
    lastFire.known => lastFire.elapsed = lastFire.delay + lastFire.paused

\* an action fired after two full pauses
FiredAfterTwoPauses == lastFire.known /\ lastFire.paused = 2 * Quantum

\* C2: while the status is paused nothing fires: until a resume or a reset the
\* four containers, the log and the status stay as the pause left them.
PausedFreezes ==
    [][(status = "paused" /\ lastOp' \notin {"resume", "reset"})
          => (lastOp' # "fire" /\ UNCHANGED <<Containers, output, status>>)]_vars

\* a pause that has lasted past the remaining delay of a pending action
PausedPastDue ==
    /\ status = "paused"
    /\ now = pauseStart + Quantum
    /\ \E i \in DOMAIN scheduledEvents : scheduledEvents[i].remainingDelay < Quantum

\* C3: reset leaves status idle, the four containers and the log empty, the
\* registry empty and no timer armed.
ResetClears ==
    lastOp = "reset" =>
        /\ status = "idle"
        /\ callStack = <<>> /\ webAPI = <<>> /\ microTaskQueue = <<>> /\ callbackQueue = <<>>
        /\ output = <<>>
        /\ scheduledEvents = <<>>
        /\ timers = {}

\* a reset of a run in progress, with timers armed
ResetWhileRunning == lastOp = "reset" /\ prevStatus = "running" /\ uniqueId > 2

IllegalCallsAreNoOps ==
    [][((lastOp' = "pause" /\ prevStatus' # "running")
           \/ (lastOp' = "resume" /\ prevStatus' # "paused"))
          => UNCHANGED <<status, Containers, output, scheduledEvents, timers>>]_vars

\* a second pause, some time into a pause with actions pending
SecondPauseWhilePaused ==
    /\ lastOp = "pause" /\ prevStatus = "paused"
    /\ now > pauseStart
    /\ scheduledEvents # <<>>

\* C6: the action that fires is one with the least remaining delay among the
\* pending ones, and of those with that remaining delay the first registered.
FiresInOrder ==
    [][FireStep =>
          /\ lastFire'.known
          /\ \A r \in DOMAIN registered \ {lastFire'.ref} :
                \/ Remaining(lastFire'.ref) < Remaining(r)
                \/ (Remaining(lastFire'.ref) = Remaining(r) /\ lastFire'.ref < r)]_vars

\* after a pause and a resume an action fired while a later-registered one
\* with the same remaining delay was pending
TieFiredInOrder ==
    /\ lastOp = "fire" /\ lastFire.known /\ lastFire.paused > 0
    /\ \E r \in DOMAIN registered : r > lastFire.ref /\ Remaining(r) = 0

\* C7: no callback runs twice, the entry that fired is gone from the registry
\* and has no timer left, no entry ever has two timers armed, and no numbered
\* line is logged twice.
FireOnce ==
    /\ ~lastFire.again
    /\ \A t1, t2 \in timers : t1.ref = t2.ref => t1 = t2
    /\ lastOp = "fire" => lastFire.ref \notin LiveRefs(State)
    /\ \A i, j \in DOMAIN output :
          (i # j /\ output[i] = output[j]) => output[i] \in {"Execution paused", "Execution resumed"}

\* the last action of a run fired after two pause/resume cycles
CompletedAfterTwoCycles ==
    /\ lastOp = "fire" /\ lastFire.callback = 13
    /\ Len(SelectSeq(output, LAMBDA line : line = "Execution resumed")) = 2

\* C8: from a reset until the next run nothing fires: status stays idle, the
\* containers and the log stay empty and no timer is armed.
NothingFiresAfterReset ==
    [][(status = "idle" /\ lastOp' # "run")
          => /\ status' = "idle" /\ lastOp' # "fire"
             /\ callStack' = <<>> /\ webAPI' = <<>> /\ microTaskQueue' = <<>>
             /\ callbackQueue' = <<>> /\ output' = <<>>
             /\ timers' = {}]_vars

\* a reset of a paused run, whose actions were suspended
ResetWhileSuspended == lastOp = "reset" /\ prevStatus = "paused" /\ uniqueId > 2

\* C9: the callback queue only grows at its tail, and a dequeue step removes
\* exactly its head, hands that item to the stack and keeps the rest in order.
MacrotaskFifo ==
    [][FireStep =>
          IF lastFire'.callback \in {11, 12} /\ callbackQueue # <<>>
          THEN /\ callbackQueue' = Tail(callbackQueue)
               /\ callStack'[Len(callStack')].text = Head(callbackQueue).text
          ELSE \/ callbackQueue' = callbackQueue
               \/ /\ Len(callbackQueue') = Len(callbackQueue) + 1
                  /\ SubSeq(callbackQueue', 1, Len(callbackQueue)) = callbackQueue]_vars

\* the database callback, enqueued first, was dequeued first and the image
\* callback is what remains
DatabaseDequeuedFirst ==
    /\ lastOp = "fire" /\ lastFire.callback = 11
    /\ Len(callbackQueue) = 1 /\ callbackQueue[1].text = "Image load callback"
    /\ callStack[Len(callStack)].text = "Database callback"

MicrotasksBeforeMacrotasks ==
    [][(FireStep /\ lastFire'.callback \in {11, 12})
          => /\ microTaskQueue = <<>>
             /\ \E i \in DOMAIN output : output[i] = "10. Processing Promise callback"]_vars

\* a macrotask dequeued after the run was paused and resumed
MacrotaskDequeuedAfterPause ==
    /\ lastOp = "fire" /\ lastFire.callback = 11 /\ lastFire.paused > 0
    /\ microTaskQueue = <<>>

\* the thirteen numbered log lines, in step order
NumberedLines ==
    << "1. Starting main execution", "2. Starting image load (3000ms)",
       "3. Image load moved to Web API", "4. Starting database query (2500ms)",
       "5. Database query moved to Web API", "6. Creating Promise",
       "7. Promise moved to microtask queue",
       "8. Database query complete, callback queued",
       "9. Image load complete, callback queued", "10. Processing Promise callback",
       "11. Processing database callback", "12. Processing image callback",
       "13. Execution complete" >>

\* C12: the numbered lines of the output log are lines 1, 2, ..., n in that
\* order, each once, whatever pause/resume lines stand between them; line 1
\* is written by run() together with the push of "main()".
LogInStepOrder ==
    LET numbered == SelectSeq(output, LAMBDA line :
                        line \notin {"Execution paused", "Execution resumed"})
    IN  /\ Len(numbered) <= Len(NumberedLines)
        /\ numbered = SubSeq(NumberedLines, 1, Len(numbered))
        /\ lastOp = "run" => /\ output = <<NumberedLines[1]>>
                             /\ Len(callStack) = 1 /\ callStack[1].text = "main()"

\* a complete log with two pause lines and two resume lines in it
FullLogWithPauses ==
    /\ status = "complete" /\ Len(output) = Len(NumberedLines) + 4
    /\ output[Len(output)] = NumberedLines[13]

RunStep == lastOp' = "run" /\ calls' = calls + 1

\* C15 as stated: run() registers the actions of all twelve later steps, and
\* no firing registers an action.
AllRegisteredByRun ==
    [][/\ RunStep => {e.callback : e \in Range(scheduledEvents')} = 2..13
       /\ FireStep => {e.ref : e \in Range(scheduledEvents')}
                         \subseteq {e.ref : e \in Range(scheduledEvents)}]_vars

\* C15: run() registers the actions of steps 2-6 and 8-13, each with its delay
\* counted from the start of the run; the action of step 7 is registered by
\* the callback of step 6, with a delay of 200 ms counted from that firing;
\* no other firing registers an action.
OnlyStep7RegisteredLater ==
    [][/\ RunStep
          => /\ [i \in DOMAIN scheduledEvents' |->
                    <<scheduledEvents'[i].callback, scheduledEvents'[i].remainingDelay>>]
                  = << <<2, 500>>, <<3, 1000>>, <<4, 1500>>, <<5, 2000>>, <<6, 2500>>,
                       <<8, 4500>>, <<9, 5000>>, <<10, 5500>>, <<11, 6000>>,
                       <<12, 6500>>, <<13, 7000>> >>
             /\ \A e \in Range(scheduledEvents') :
                   /\ e.startTime = now'
                   /\ \E t \in timers' : t.ref = e.ref /\ t.due = now' + e.remainingDelay
       /\ FireStep
          => LET late == {e \in Range(scheduledEvents') :
                             \A o \in Range(scheduledEvents) : o.ref # e.ref}
             IN  IF lastFire'.callback = 6
                 THEN /\ Cardinality(late) = 1
                      /\ \A e \in late :
                            /\ e.callback = 7 /\ e.remainingDelay = 200 /\ e.startTime = now
                            /\ \E t \in timers' : t.ref = e.ref /\ t.due = now + 200
                 ELSE late = {}]_vars

\* step 6 has fired after a pause and left the action of step 7 in the registry
Step7RegisteredByStep6 ==
    /\ lastOp = "fire" /\ lastFire.callback = 6 /\ lastFire.paused > 0
    /\ \E e \in Range(scheduledEvents) :
          e.callback = 7 /\ e.remainingDelay = 200 /\ e.startTime = now

\* C16: at every step the items of the four containers carry pairwise
\* different ids, all of them already handed out; the id counter never goes
\* back, reset() and a further run() included, and an item that appears with
\* an id not seen in the containers before gets an id no earlier step handed out.
IdsNeverReused ==
    [][LET before == callStack \o webAPI \o microTaskQueue \o callbackQueue
           after == callStack' \o webAPI' \o microTaskQueue' \o callbackQueue'
       IN  /\ \A i, j \in DOMAIN after : i # j => after[i].id # after[j].id
           /\ \A i \in DOMAIN after : after[i].id < uniqueId'
           /\ uniqueId' >= uniqueId
           /\ \A i \in DOMAIN after :
                 (\A j \in DOMAIN before : before[j].id # after[i].id)
                     => after[i].id >= uniqueId]_vars

\* a later run, after the sixteen ids of a finished or abandoned one, with
\* items on the stack and in the Web API list
ItemsOfLaterRun ==
    /\ status = "running" /\ uniqueId > 16
    /\ Len(callStack) >= 2 /\ webAPI # <<>>
    /\ \A i \in DOMAIN callStack : callStack[i].id >= 2

\* C17: while running every registry entry holds a timer that is armed on the
\* host, while paused no registry entry holds a timer and none is armed, and
\* while idle or complete the registry is empty.
StatusAgreesWithTimers ==
    /\ status = "running"
          => \A e \in Range(scheduledEvents) :
                e.timer # NULL /\ \E t \in timers : t.handle = e.timer /\ t.ref = e.ref
    /\ status = "paused"
          => /\ \A e \in Range(scheduledEvents) : e.timer = NULL
             /\ timers = {}
    /\ status \in {"idle", "complete"} => scheduledEvents = <<>>

\* paused in the middle of a run, with actions still waiting in the registry
PausedWithWaitingEntries ==
    /\ status = "paused" /\ lastFire.callback = 6
    /\ Len(scheduledEvents) >= 2

\* C18: in a behaviour without reset() in which no pause lasts forever (the
\* status is not paused again and again, so every pause was followed by a
\* resume), a running simulation reaches status complete; and status turns
\* complete only in the firing of step 13.
EventuallyComplete ==
    /\ ([]<>(status # "paused")) => ((status = "running") ~> (status = "complete"))
    /\ [][(status # "complete" /\ status' = "complete")
             => (FireStep /\ lastFire'.callback = 13)]_vars

\* step 13 has just completed a run that was paused for one quantum
CompletedByStep13 ==
    /\ status = "complete" /\ lastOp = "fire"
    /\ lastFire.callback = 13 /\ lastFire.paused = Quantum

\* C19: when step 10 fires the microtask queue holds exactly the item
\* "Promise callback", when step 11 fires the head of the callback queue is
\* "Database callback", when step 12 fires it is "Image load callback"; and
\* no item without a text is ever on the stack.
ConsumersFindTheirItem ==
    [][/\ (FireStep /\ lastFire'.callback = 10)
             => Len(microTaskQueue) = 1 /\ microTaskQueue[1].text = "Promise callback"
       /\ (FireStep /\ lastFire'.callback = 11)
             => callbackQueue # <<>> /\ callbackQueue[1].text = "Database callback"
       /\ (FireStep /\ lastFire'.callback = 12)
             => callbackQueue # <<>> /\ callbackQueue[1].text = "Image load callback"
       /\ \A i \in DOMAIN callStack' : callStack'[i].text # UndefinedItem.text]_vars

\* step 12 has moved "Image load callback" onto the stack in a run that was
\* paused twice
ImageCallbackOnStack ==
    /\ lastOp = "fire" /\ lastFire.callback = 12 /\ lastFire.paused = 2 * Quantum
    /\ callStack[Len(callStack)].text = "Image load callback"
    /\ callbackQueue = <<>>

\* C20: whenever status is complete the stack, the Web API list and both
\* queues are empty and the output log holds each of the thirteen numbered
\* lines.
CompleteLeavesNothingBehind ==
    status = "complete"
       => /\ callStack = <<>> /\ webAPI = <<>>
          /\ microTaskQueue = <<>> /\ callbackQueue = <<>>
          /\ \A n \in DOMAIN NumberedLines :
                \E i \in DOMAIN output : output[i] = NumberedLines[n]

\* complete after a second run, the first one having been abandoned or finished
CompleteAfterRerun ==
    /\ status = "complete" /\ uniqueId > 16
    /\ lastFire.callback = 13

====
